---- MODULE Spec2Model ----
(***************************************************************************)
(* Ride matching engine of zride (ai-matching-service): the request /      *)
(* result lifecycle driven by MatchingUseCase.CreateMatchRequest, the      *)
(* background MatchingUseCase.processMatchRequest task it spawns,          *)
(* AIMatchingService.FindMatches and MatchingUseCase.AcceptMatch, over the *)
(* postgres repositories.                                                  *)
(*                                                                         *)
(* Every repository call and collaborator call is one atomic step (one SQL *)
(* statement / one remote call); the steps of concurrently running         *)
(* handlers and background tasks interleave freely.  Each such call may    *)
(* fail; the number of injected failures in one run is bounded by          *)
(* MaxFaults.                                                              *)
(*                                                                         *)
(* Geometry: all points lie on one meridian and are given by their         *)
(* position in km along it, where the haversine distance reduces to the    *)
(* absolute difference.  Ratings are in tenths (30 = 3.0).                 *)
(***************************************************************************)
EXTENDS Integers, Sequences, FiniteSets, TLC

\* ---------------------------------------------------------------- bounds
MaxRequests == 2        \* CreateMatchRequest calls in one run
MaxCalls == 2           \* AcceptMatch calls in one run
MaxFaults == 1          \* failing store / collaborator calls in one run

\* ------------------------------------------------------ program constants
MaxDrivers == 10        \* DefaultMatchingConfig().MaxDrivers
MaxSearchRadius == 15   \* DefaultMatchingConfig().MaxSearchRadius (km)
MinDriverRating == 30   \* DefaultMatchingConfig().MinDriverRating (3.0)
DriverQueryLimit == 50  \* LIMIT 50 of GetAvailableDriversInRadius
FreshnessMinutes == 5   \* 5*time.Minute of filterDrivers
DefaultMaxDistance == 15 \* handler default for MaxDistance (km)

ReqIds == 1..MaxRequests
CallIds == 1..MaxCalls

\* ------------------------------------------------------------ driver pool
\* The rows of the drivers table at start-up.  idle is the age of
\* last_active_time in minutes.  d3 is rated below the minimum, d4 has not
\* been active for 7 minutes, d5 is inside the search radius but farther
\* from the pickup than the distance the requests accept.
Drivers == {"d1", "d2", "d3", "d4", "d5"}

DriverPool ==
    [d \in Drivers |->
        CASE d = "d1" -> [id |-> d, position |-> 1, carType |-> "motorbike",
                          rating |-> 45, isAvailable |-> TRUE, idle |-> 1,
                          completedTrips |-> 60, maxDistance |-> 15,
                          preferredAreas |-> <<>>]
          [] d = "d2" -> [id |-> d, position |-> 3, carType |-> "car_4_seat",
                          rating |-> 40, isAvailable |-> TRUE, idle |-> 2,
                          completedTrips |-> 20, maxDistance |-> 15,
                          preferredAreas |-> <<>>]
          [] d = "d3" -> [id |-> d, position |-> 4, carType |-> "car_7_seat",
                          rating |-> 25, isAvailable |-> TRUE, idle |-> 1,
                          completedTrips |-> 5, maxDistance |-> 15,
                          preferredAreas |-> <<>>]
          [] d = "d4" -> [id |-> d, position |-> 2, carType |-> "motorbike",
                          rating |-> 48, isAvailable |-> TRUE, idle |-> 7,
                          completedTrips |-> 80, maxDistance |-> 15,
                          preferredAreas |-> <<>>]
          [] d = "d5" -> [id |-> d, position |-> 12, carType |-> "car_4_seat",
                          rating |-> 50, isAvailable |-> TRUE, idle |-> 1,
                          completedTrips |-> 90, maxDistance |-> 15,
                          preferredAreas |-> <<>>]]

Passengers == {"p1"}
PickupInputs == {0}

ResultIds == ReqIds \X Drivers
CarTypeInputs == {"", "car_7_seat"}
MaxDistanceInputs == {10}
DropoffInput == 2
RequestTimeInput == 720         \* 12:00, in minutes since midnight
NoPriceRange == [minPrice |-> 0, maxPrice |-> 0]

\* the drivers that call AcceptMatch and the result ids they pass
AcceptCallers == {"d1", "d2"}
AcceptTargets == ReqIds \X AcceptCallers


\* ------------------------------------------------------------------ state
VARIABLES
    requests,       \* match_requests table
    reqObj,         \* the *domain.MatchRequest object shared by the caller
                    \* of CreateMatchRequest and the task it spawns
    create,         \* CreateMatchRequest calls: position, error, response
    task,           \* processMatchRequest tasks: position and locals
    results,        \* match_results table: the status column of each row,
                    \* "none" where there is no row
    drivers,        \* drivers table: mutable columns
    accept,         \* AcceptMatch calls: position, arguments, locals, result
    trips,          \* trips created by ExternalService.CreateTrip
    notifications,  \* calls made to the NotificationService
    faults,         \* failures injected so far
    listing,        \* GetAvailableMatches: the call and the items it returned
    input,          \* the arguments of a direct call of an engine function
    output          \* what that call returned

vars == <<requests, reqObj, create, task, results, drivers, accept, trips,
          notifications, faults, listing, input, output>>

\* the variables the request / result lifecycle leaves alone
aux == <<listing, input, output>>

\* the variables of the request / result lifecycle
lifecycle == <<requests, reqObj, create, task, results, drivers, accept,
               trips, notifications, faults>>

\* -------------------------------------------------------------- constants
MatchStatusPending == "pending"
MatchStatusMatched == "matched"
MatchStatusExpired == "expired"
MatchStatusCancelled == "cancelled"
MatchStatuses == {MatchStatusPending, MatchStatusMatched, MatchStatusExpired,
                  MatchStatusCancelled}

MatchResultStatusPending == "pending"
MatchResultStatusAccepted == "accepted"
MatchResultStatusRejected == "rejected"
MatchResultStatusExpired == "expired"

CodeNotFound == "NOT_FOUND"
CodeUserNotFound == "USER_NOT_FOUND"
CodeUnauthorized == "UNAUTHORIZED"
CodeConflict == "CONFLICT"
CodeInternalError == "INTERNAL_ERROR"
CodeExternalError == "EXTERNAL_ERROR"
CodeInvalidOperation == "INVALID_OPERATION"
CodeInvalidInput == "INVALID_INPUT"
CodeValidationError == "VALIDATION_ERROR"
CodeForbidden == "FORBIDDEN"
CodeTimeout == "TIMEOUT"
Ok == "OK"              \* a nil error

\* a mapping that knows four kinds and answers 500 for every other
HTTPStatusCode_FourKinds(code) ==
    CASE code = CodeNotFound -> 404
      [] code = CodeValidationError -> 400
      [] code = CodeUnauthorized -> 401
      [] code = CodeConflict -> 409
      [] OTHER -> 500

\* AppError.HTTPStatusCode
HTTPStatusCode(code) ==
    CASE code \in {CodeInvalidInput, CodeValidationError} -> 400
      [] code \in {CodeNotFound, CodeUserNotFound} -> 404
      [] code = CodeUnauthorized -> 401
      [] code = CodeForbidden -> 403
      [] code = CodeConflict -> 409
      [] code = CodeTimeout -> 408
      [] code = CodeInvalidOperation -> 400
      [] OTHER -> 500

NoRow == [status |-> "none"]
NoResult == <<0, "none">>
NoListing == [pc |-> "idle", driverID |-> "none", limit |-> 0,
              driver |-> "none", err |-> "none", items |-> <<>>]
NoCall == [fn |-> "none"]

\* ------------------------------------------------------- fault injection
Fails(ok) == IF ok THEN 0 ELSE 1

\* ---------------------------------------------------------------- geodesy
Abs(x) == IF x < 0 THEN -x ELSE x

\* AIMatchingService.CalculateDistance, on one meridian
CalculateDistance(from, to) == Abs(to - from)

\* ------------------------------------------------------------- sequences
Prefix(s, n) == IF Len(s) > n THEN SubSeq(s, 1, n) ELSE s

\* --------------------------------------------------- candidate pool access
RECURSIVE OrderByDistance(_, _, _)
\* ORDER BY distance_km over the selected rows
OrderByDistance(table, S, location) ==
    IF S = {} THEN <<>>
    ELSE LET m == CHOOSE x \in S : \A y \in S :
                      CalculateDistance(location, table[x].position)
                          <= CalculateDistance(location, table[y].position)
         IN  <<table[m]>> \o OrderByDistance(table, S \ {m}, location)

\* DriverRepository.GetAvailableDriversInRadius
GetAvailableDriversInRadius(table, location, radius) ==
    Prefix(OrderByDistance(table,
               {d \in DOMAIN table :
                   /\ table[d].isAvailable
                   /\ CalculateDistance(location, table[d].position) <= radius},
               location),
           DriverQueryLimit)

\* the loop body without the check of the request's own maximum distance
PassesFilter_NoMaxDistance(driver, request) ==
    /\ ~(driver.rating < MinDriverRating)
    /\ ~(request.preferredCarType # "" /\ driver.carType # request.preferredCarType)
    /\ ~(driver.idle > FreshnessMinutes)

\* the body of the loop of AIMatchingService.filterDrivers: TRUE when the
\* driver is appended to the filtered list
PassesFilter(driver, request) ==
    /\ ~(driver.rating < MinDriverRating)
    /\ ~(request.preferredCarType # "" /\ driver.carType # request.preferredCarType)
    /\ ~(CalculateDistance(driver.position, request.pickup) > request.maxDistance)
    /\ ~(driver.idle > FreshnessMinutes)

RECURSIVE filterDrivers(_, _)
\* AIMatchingService.filterDrivers
filterDrivers(ds, request) ==
    IF ds = <<>> THEN <<>>
    ELSE IF PassesFilter(Head(ds), request)
         THEN <<Head(ds)>> \o filterDrivers(Tail(ds), request)
         ELSE filterDrivers(Tail(ds), request)

\* ------------------------------------------------------------ float64
\* Scores, features and weights are fixed-point numbers: One stands for 1.0.
\* Weights are hundredths.  A division by zero yields PosInf or NaN as in
\* IEEE 754; PosInf is larger than every finite value, NaN compares false
\* with everything.
One == 1000
PosInf == 1000000000
NaN == -1000000000

IsFinite(x) == x # NaN /\ x # PosInf

\* a < b on float64
FloatLess(a, b) == a # NaN /\ b # NaN /\ a < b

\* math.Min
Min(a, b) == IF a < b THEN a ELSE b

RECURSIVE SqrtSearch(_, _, _)
SqrtSearch(n, lo, hi) ==
    IF lo >= hi THEN lo
    ELSE LET mid == (lo + hi + 1) \div 2
         IN  IF mid * mid <= n THEN SqrtSearch(n, mid, hi)
             ELSE SqrtSearch(n, lo, mid - 1)

\* math.Sqrt on [0, 4]
Sqrt(x) == SqrtSearch(x * One, 0, 2 * One)

RECURSIVE ExpSeries(_, _, _, _)
\* the Taylor series of e^x, x >= 0, from term k on
ExpSeries(x, term, k, acc) ==
    IF term = 0 \/ k > 40 THEN acc
    ELSE LET t == (term * x) \div (k * One)
         IN  ExpSeries(x, t, k + 1, acc + t)

\* math.Exp on [-6, 6]
Exp(x) ==
    IF x >= 0 THEN ExpSeries(x, One, 1, One)
    ELSE (One * One) \div ExpSeries(0 - x, One, 1, One)

RECURSIVE LogSeries(_, _, _, _)
\* the series u + u^2/2 + u^3/3 + ... of -ln(1 - u), 0 <= u < 1
LogSeries(u, power, k, acc) ==
    IF power = 0 \/ k > 40 THEN acc
    ELSE LogSeries(u, (power * u) \div One, k + 1, acc + power \div k)

\* math.Pow(x, 0.8): NaN for a negative base, e^(0.8 ln x) otherwise
Pow08(x) ==
    IF x < 0 THEN NaN
    ELSE IF x = 0 THEN 0
    ELSE IF x <= One
         THEN Exp(0 - (8 * LogSeries(One - x, One - x, 1, 0)) \div 10)
         ELSE (One * One) \div
                  Exp(0 - (8 * LogSeries(One - (One * One) \div x,
                                         One - (One * One) \div x, 1, 0)) \div 10)

\* math.Pow(x, 1.5) on [0, 4]
Pow15(x) == (x * Sqrt(x)) \div One

\* ----------------------------------------------------------- sort.Slice
\* less(i, j) of the two comparison functions in use: ascending by key
\* (nearest) or descending by key (the scored strategies)
Less(x, y, desc) ==
    IF desc THEN FloatLess(y.key, x.key) ELSE FloatLess(x.key, y.key)

\* sort.Slice sorts up to MaxInsertion elements by insertion
MaxInsertion == 12

RECURSIVE InsertLeft(_, _, _)
\* the inner loop of the insertion sort: x moves left while it is less than
\* its left neighbour
InsertLeft(s, x, desc) ==
    IF s = <<>> THEN <<x>>
    ELSE IF Less(x, s[Len(s)], desc)
         THEN InsertLeft(SubSeq(s, 1, Len(s) - 1), x, desc) \o <<s[Len(s)]>>
         ELSE s \o <<x>>

RECURSIVE InsertionSort(_, _)
InsertionSort(s, desc) ==
    IF Len(s) <= 1 THEN s
    ELSE InsertLeft(InsertionSort(SubSeq(s, 1, Len(s) - 1), desc),
                    s[Len(s)], desc)

IsSorted(s, desc) ==
    \A i \in 1..(Len(s) - 1) : ~Less(s[i + 1], s[i], desc)

RECURSIVE Orderings(_, _, _)
\* the arrangements of the elements s[i], i \in S, in which no element is
\* followed by one that is less
Orderings(s, S, desc) ==
    IF S = {} THEN {<<>>}
    ELSE UNION {{<<s[i]>> \o t : t \in Orderings(s, S \ {i}, desc)} :
                   i \in {m \in S : \A j \in S : ~Less(s[j], s[m], desc)}}

\* sort.Slice: the orders it can leave the slice in.  Up to MaxInsertion
\* elements are sorted by insertion; a longer slice that is already in order
\* is left as it is; any other slice is sorted without a guarantee on the
\* order of equal elements.
SortSlice(s, desc) ==
    IF Len(s) <= MaxInsertion THEN {InsertionSort(s, desc)}
    ELSE IF IsSorted(s, desc) THEN {s}
    ELSE Orderings(s, 1..Len(s), desc)

\* the results of a sorted slice of scored candidates
ResultsIn(sorted) == [i \in 1..Len(sorted) |-> sorted[i].result]

\* ---------------------------------------------------------- scoring engine
AlgorithmNearest == "nearest"
AlgorithmWeighted == "weighted"
AlgorithmML == "ml"
AlgorithmHybrid == "hybrid"

\* domain.DefaultMatchingCriteria
DefaultMatchingCriteria ==
    [distanceWeight |-> 40, ratingWeight |-> 20, timeWeight |-> 20,
     priceWeight |-> 10, experienceWeight |-> 10]

\* domain.DefaultMatchingConfig
DefaultMatchingConfig ==
    [algorithm |-> AlgorithmWeighted, maxDrivers |-> MaxDrivers,
     maxSearchRadius |-> MaxSearchRadius, minDriverRating |-> MinDriverRating,
     criteria |-> DefaultMatchingCriteria]

BasePricePerKM == 8     \* thousand VND per km
MinimumFare == 20       \* thousand VND
AverageSpeedKMH == 25

\* a multiplier that treats an unknown car type as a motorbike
CarTypeMultiplier_UnknownIsMotorbike(carType) ==
    CASE carType = "motorbike" -> 10
      [] carType = "car_4_seat" -> 15
      [] carType = "car_7_seat" -> 20
      [] OTHER -> 10

\* the car type multiplier of EstimatePrice, in tenths
CarTypeMultiplier(carType) ==
    CASE carType = "motorbike" -> 10
      [] carType = "car_4_seat" -> 15
      [] carType = "car_7_seat" -> 20
      [] OTHER -> 15

\* AIMatchingService.EstimatePrice, in thousand VND
EstimatePrice(from, to, carType) ==
    LET finalPrice == (CalculateDistance(from, to) * BasePricePerKM
                           * CarTypeMultiplier(carType)) \div 10
    IN  IF finalPrice < MinimumFare THEN MinimumFare ELSE finalPrice

\* AIMatchingService.EstimateTime, in seconds
EstimateTime(from, to) ==
    (CalculateDistance(from, to) * 3600) \div AverageSpeedKMH

\* the price score of ScoreMatch
PriceScore(estimatedPrice, priceRange) ==
    IF priceRange.maxPrice > 0
    THEN IF estimatedPrice <= priceRange.maxPrice
         THEN IF priceRange.maxPrice = priceRange.minPrice
              THEN IF estimatedPrice = priceRange.minPrice THEN NaN ELSE PosInf
              ELSE One - ((estimatedPrice - priceRange.minPrice) * One)
                             \div (priceRange.maxPrice - priceRange.minPrice)
         ELSE One \div 2
    ELSE One

\* AIMatchingService.ScoreMatch
ScoreMatch(request, driver, criteria) ==
    LET distance == CalculateDistance(driver.position, request.pickup)
        distanceScore == (One * 10) \div (10 + distance)
        ratingScore == (driver.rating * One) \div 50
        estimatedTime == EstimateTime(driver.position, request.pickup)
        timeScore == (One * 1800) \div (1800 + estimatedTime)
        estimatedPrice == EstimatePrice(request.pickup, request.dropoff,
                                        driver.carType)
        priceScore == PriceScore(estimatedPrice, request.priceRange)
        experienceScore == Min((driver.completedTrips * One) \div 50, One)
    IN  IF priceScore = NaN \/ (priceScore = PosInf /\ criteria.priceWeight = 0)
        THEN NaN
        ELSE IF priceScore = PosInf THEN PosInf
        ELSE (distanceScore * criteria.distanceWeight
                + ratingScore * criteria.ratingWeight
                + timeScore * criteria.timeWeight
                + priceScore * criteria.priceWeight
                + experienceScore * criteria.experienceWeight) \div 100

\* a MatchResult as the strategies build it
NewMatchResult(request, driver, score) ==
    [matchRequestID |-> request.id,
     driverID |-> driver.id,
     score |-> score,
     estimatedDistance |-> CalculateDistance(driver.position, request.pickup),
     estimatedTime |-> EstimateTime(driver.position, request.pickup),
     estimatedPrice |-> EstimatePrice(request.pickup, request.dropoff,
                                      driver.carType),
     status |-> MatchResultStatusPending]

\* the score the nearest strategy gives: 1 / (1 + distance)
NearestScore(request, driver) ==
    One \div (1 + CalculateDistance(driver.position, request.pickup))

\* AIMatchingService.nearestAlgorithm: the lists it can return
nearestAlgorithm(request, ds) ==
    LET driverDistances ==
            [i \in 1..Len(ds) |->
                [key |-> CalculateDistance(ds[i].position, request.pickup),
                 result |-> NewMatchResult(request, ds[i],
                                           NearestScore(request, ds[i]))]]
    IN  {ResultsIn(sorted) : sorted \in SortSlice(driverDistances, FALSE)}

\* AIMatchingService.weightedAlgorithm: the lists it can return
weightedAlgorithm(request, ds, config) ==
    LET driverScores ==
            [i \in 1..Len(ds) |->
                LET score == ScoreMatch(request, ds[i], config.criteria)
                IN  [key |-> score,
                     result |-> NewMatchResult(request, ds[i], score)]]
    IN  {ResultsIn(sorted) : sorted \in SortSlice(driverScores, TRUE)}

RECURSIVE MaxSimilarity(_, _, _)
\* the loop of calculateLocationSimilarity over the preferred areas
MaxSimilarity(areas, pickup, maxSimilarity) ==
    IF areas = <<>> THEN maxSimilarity
    ELSE LET similarity ==
                 (One * 5) \div (5 + CalculateDistance(Head(areas), pickup))
         IN  MaxSimilarity(Tail(areas), pickup,
                           IF similarity > maxSimilarity THEN similarity
                           ELSE maxSimilarity)

\* AIMatchingService.calculateLocationSimilarity
calculateLocationSimilarity(driver, request) ==
    IF Len(driver.preferredAreas) = 0 THEN One \div 2
    ELSE MaxSimilarity(driver.preferredAreas, request.pickup, 0)

\* AIMatchingService.calculateTimePreference; the request time is given in
\* minutes since midnight
calculateTimePreference(request) ==
    LET hour == request.requestTime \div 60
    IN  IF (hour >= 7 /\ hour <= 9) \/ (hour >= 17 /\ hour <= 19)
        THEN (One * 7) \div 10
        ELSE One

\* the features mlAlgorithm extracts for a driver
ExtractFeatures(request, driver) ==
    [distance |-> CalculateDistance(driver.position, request.pickup),
     normalizedRating |-> (driver.rating * One) \div 50,
     experienceScore |-> Min((driver.completedTrips * One) \div 100, One),
     availabilityScore |-> One - (driver.idle * One) \div 60,
     locationSimilarity |-> calculateLocationSimilarity(driver, request),
     timePreference |-> calculateTimePreference(request)]

\* AIMatchingService.calculateMLScore
calculateMLScore(features, criteria) ==
    LET distanceFeature == (One * 10) \div (10 + features.distance)
        ratingFeature == Pow15(features.normalizedRating)
        experienceFeature == Sqrt(features.experienceScore)
        availabilityFeature == Pow08(features.availabilityScore)
        ratingDistanceInteraction == (ratingFeature * distanceFeature) \div One
        experienceLocationInteraction ==
            (experienceFeature * features.locationSimilarity) \div One
        score == (distanceFeature * criteria.distanceWeight
                    + ratingFeature * criteria.ratingWeight
                    + experienceFeature * criteria.experienceWeight
                    + availabilityFeature * 10
                    + features.locationSimilarity * 10
                    + features.timePreference * 5
                    + ratingDistanceInteraction * 10
                    + experienceLocationInteraction * 5) \div 100
    IN  IF availabilityFeature = NaN THEN NaN
        ELSE (One * One) \div (One + Exp(0 - 5 * (score - One \div 2)))

\* AIMatchingService.mlAlgorithm: the lists it can return
mlAlgorithm(request, ds, config) ==
    LET driverFeaturesList ==
            [i \in 1..Len(ds) |->
                LET mlScore == calculateMLScore(ExtractFeatures(request, ds[i]),
                                                config.criteria)
                IN  [key |-> mlScore,
                     result |-> NewMatchResult(request, ds[i], mlScore)]]
    IN  {ResultsIn(sorted) : sorted \in SortSlice(driverFeaturesList, TRUE)}

\* result.Score * weight on float64, the weight in tenths
ScaleScore(score, tenths) ==
    IF IsFinite(score) THEN (score * tenths) \div 10 ELSE score

\* a + b on float64
FloatAdd(a, b) ==
    IF a = NaN \/ b = NaN THEN NaN
    ELSE IF a = PosInf \/ b = PosInf THEN PosInf
    ELSE a + b

RECURSIVE Accumulate(_, _, _, _)
\* one of the three loops of hybridAlgorithm that add result.Score * weight
\* to driverScores[result.DriverID]
Accumulate(driverScores, strategyResults, tenths, i) ==
    IF i > Len(strategyResults) THEN driverScores
    ELSE LET result == strategyResults[i]
             old == IF result.driverID \in DOMAIN driverScores
                    THEN driverScores[result.driverID] ELSE 0
             new == FloatAdd(old, ScaleScore(result.score, tenths))
         IN  Accumulate([d \in DOMAIN driverScores \cup {result.driverID} |->
                            IF d = result.driverID THEN new ELSE driverScores[d]],
                        strategyResults, tenths, i + 1)

\* the last result stored in driverResults[driverID] by the three loops
LastResultFor(driverID, lists) ==
    LET all == lists[1] \o lists[2] \o lists[3]
        last == CHOOSE i \in 1..Len(all) :
                    /\ all[i].driverID = driverID
                    /\ \A j \in (i + 1)..Len(all) : all[j].driverID # driverID
    IN  all[last]

RECURSIVE KeysOf(_)
\* the keys of a map in one order
KeysOf(S) ==
    IF S = {} THEN <<>>
    ELSE LET x == CHOOSE y \in S : TRUE
         IN  <<x>> \o KeysOf(S \ {x})

RECURSIVE RangeOrders(_)
\* the orders in which a range over a map can visit its keys
RangeOrders(S) ==
    IF S = {} THEN {<<>>}
    ELSE UNION {{<<x>> \o t : t \in RangeOrders(S \ {x})} : x \in S}

\* the orders sort.Slice can leave hybridScores in, which is filled in the
\* order of a range over the map driverScores
SortFromMap(hybridScores) ==
    IF \A d \in DOMAIN hybridScores : hybridScores[d].key # NaN
    THEN LET s == KeysOf(DOMAIN hybridScores)
         IN  Orderings([i \in DOMAIN s |-> hybridScores[s[i]]], DOMAIN s, TRUE)
    ELSE UNION {SortSlice([i \in 1..Len(p) |-> hybridScores[p[i]]], TRUE) :
                   p \in RangeOrders(DOMAIN hybridScores)}

\* AIMatchingService.hybridAlgorithm: the lists it can return
hybridAlgorithm(request, ds, config) ==
    LET nearestResults == CHOOSE l \in nearestAlgorithm(request, ds) : TRUE
        weightedResults == CHOOSE l \in weightedAlgorithm(request, ds, config) : TRUE
        mlResults == CHOOSE l \in mlAlgorithm(request, ds, config) : TRUE
        driverScores ==
            Accumulate(Accumulate(Accumulate(<<>>, nearestResults, 3, 1),
                                  weightedResults, 4, 1),
                       mlResults, 3, 1)
        hybridScores ==
            [d \in DOMAIN driverScores |->
                [key |-> driverScores[d],
                 result |-> [LastResultFor(d, <<nearestResults, weightedResults,
                                                mlResults>>)
                                EXCEPT !.score = driverScores[d]]]]
    IN  {ResultsIn(sorted) : sorted \in SortFromMap(hybridScores)}

\* the switch on config.Algorithm of FindMatches
ApplyAlgorithm(request, filteredDrivers, config) ==
    CASE config.algorithm = AlgorithmNearest ->
             nearestAlgorithm(request, filteredDrivers)
      [] config.algorithm = AlgorithmWeighted ->
             weightedAlgorithm(request, filteredDrivers, config)
      [] config.algorithm = AlgorithmML ->
             mlAlgorithm(request, filteredDrivers, config)
      [] config.algorithm = AlgorithmHybrid ->
             hybridAlgorithm(request, filteredDrivers, config)
      [] OTHER -> weightedAlgorithm(request, filteredDrivers, config)

\* the cap of FindMatches ignored
LimitResults_Unlimited(matches, config) == matches

\* "Limit results" of FindMatches
LimitResults(matches, config) == Prefix(matches, config.maxDrivers)

\* AIMatchingService.FindMatches after a successful driver query: the
\* filtered drivers, the list the strategy ranked and the returned matches,
\* for every list the strategy can return
FindMatches(table, request, config) ==
    LET ds == GetAvailableDriversInRadius(table, request.pickup,
                                          config.maxSearchRadius)
        filteredDrivers == filterDrivers(ds, request)
    IN  IF Len(filteredDrivers) = 0
        THEN {[filtered |-> filteredDrivers, ranked |-> <<>>, matches |-> <<>>]}
        ELSE {[filtered |-> filteredDrivers, ranked |-> ranked,
               matches |-> LimitResults(ranked, config)] :
                 ranked \in ApplyAlgorithm(request, filteredDrivers, config)}

\* ------------------------------------------------------------------- init
\* the stores and calls of the request / result lifecycle before any call
InitLifecycle ==
    /\ requests = [r \in ReqIds |-> NoRow]
    /\ reqObj = [r \in ReqIds |-> NoRow]
    /\ create = [r \in ReqIds |-> [pc |-> "idle", err |-> "none",
                                   status |-> "none", estimatedMatches |-> 0]]
    /\ task = [r \in ReqIds |-> [pc |-> "none", found |-> FALSE,
                                 filtered |-> <<>>, matches |-> <<>>,
                                 idx |-> 0, writeErrs |-> {},
                                 updErr |-> FALSE]]
    /\ results = [id \in ResultIds |-> "none"]
    /\ drivers = DriverPool
    /\ accept = [c \in CallIds |-> [pc |-> "idle", driverID |-> "none",
                                    resultID |-> NoResult, seen |-> "none",
                                    tripErr |-> FALSE, ret |-> "none"]]
    /\ trips = {}
    /\ notifications = {}
    /\ faults = 0

Init ==
    /\ InitLifecycle
    /\ listing = NoListing
    /\ input = NoCall
    /\ output = NoCall

\* ------------------------------------------------------ CreateMatchRequest
\* the go statement left out: no task is started
SpawnedTaskPc_NotStarted == "none"

\* "go uc.processMatchRequest(...)": the task starts at FindMatches
SpawnedTaskPc == "findMatches"

\* CreateMatchRequest up to and including the go statement: GetUserByID,
\* matchRequestRepo.Create, go processMatchRequest
CreateMatchRequest(r) ==
    /\ create[r].pc = "idle"
    /\ \A q \in ReqIds : q < r => create[q].pc # "idle"
    /\ \E passenger \in Passengers, pickup \in PickupInputs,
          pref \in CarTypeInputs, maxDistance \in MaxDistanceInputs,
          userOk \in BOOLEAN, createOk \in BOOLEAN :
        /\ userOk \/ createOk
        /\ faults + Fails(userOk) + Fails(createOk) <= MaxFaults
        /\ faults' = faults + Fails(userOk) + Fails(createOk)
        /\ IF ~userOk
           THEN /\ create' = [create EXCEPT ![r].pc = "returned",
                                            ![r].err = CodeUserNotFound]
                /\ UNCHANGED <<requests, reqObj, task>>
           ELSE IF ~createOk
           THEN /\ create' = [create EXCEPT ![r].pc = "returned",
                                            ![r].err = CodeInternalError]
                /\ UNCHANGED <<requests, reqObj, task>>
           ELSE LET matchRequest ==
                        [id |-> r, passenger |-> passenger, pickup |-> pickup,
                         dropoff |-> DropoffInput,
                         requestTime |-> RequestTimeInput,
                         preferredCarType |-> pref, maxDistance |-> maxDistance,
                         priceRange |-> NoPriceRange,
                         status |-> MatchStatusPending]
                IN  /\ requests' = [requests EXCEPT ![r] = matchRequest]
                    /\ reqObj' = [reqObj EXCEPT ![r] = matchRequest]
                    /\ task' = [task EXCEPT ![r].pc = SpawnedTaskPc]
                    /\ create' = [create EXCEPT ![r].pc = "spawned"]
    /\ UNCHANGED <<results, drivers, accept, trips, notifications>>
    /\ UNCHANGED aux

\* The values an unsynchronised read of matchRequest.Status can yield in the
\* caller while the spawned task may be writing it: the value the caller
\* wrote itself, or the value currently in memory.
RacyStatusRead(r) == {MatchStatusPending, reqObj[r].status}

\* CreateMatchRequest after the go statement: the response is built from the
\* shared request object
BuildResponse(r) ==
    /\ create[r].pc = "spawned"
    /\ \E st \in RacyStatusRead(r) :
        create' = [create EXCEPT ![r] = [pc |-> "returned", err |-> Ok,
                                         status |-> st,
                                         estimatedMatches |-> 0]]
    /\ UNCHANGED <<requests, reqObj, task, results, drivers, accept, trips,
                   notifications, faults>>
    /\ UNCHANGED aux

\* ----------------------------------------------------- processMatchRequest
\* a wrong status constant in the no-match branch
MatchStatusOnNoMatch_Matched == MatchStatusMatched

\* the status written by the no-match branch
MatchStatusOnNoMatch == MatchStatusExpired

\* the no-match branch without its return: the task falls through to the
\* (empty) save loop and the Matched update
NoMatchNextPc_FallThrough == "save"

\* where the task continues after the no-match branch: it returns
NoMatchNextPc == "done"

\* MatchRequestRepository.Update: the columns of the SET list are written
\* from the object
MatchRequestRepoUpdate(table, request) ==
    [table EXCEPT ![request.id].pickup = request.pickup,
                  ![request.id].dropoff = request.dropoff,
                  ![request.id].requestTime = request.requestTime,
                  ![request.id].preferredCarType = request.preferredCarType,
                  ![request.id].priceRange = request.priceRange,
                  ![request.id].maxDistance = request.maxDistance,
                  ![request.id].status = request.status]

\* uc.matchingService.FindMatches and the branch on its outcome
ProcessFindMatches(r) ==
    /\ task[r].pc = "findMatches"
    /\ \E queryOk \in BOOLEAN :
        /\ faults + Fails(queryOk) <= MaxFaults
        /\ faults' = faults + Fails(queryOk)
        /\ IF ~queryOk
           THEN task' = [task EXCEPT ![r].pc = "done"]
           ELSE \E fm \in FindMatches(drivers, reqObj[r], DefaultMatchingConfig) :
                    task' = [task EXCEPT ![r] =
                        [pc |-> IF Len(fm.matches) = 0 THEN "noMatch" ELSE "save",
                         found |-> TRUE, filtered |-> fm.filtered,
                         matches |-> fm.matches, idx |-> 1,
                         writeErrs |-> {}, updErr |-> FALSE]]
    /\ UNCHANGED <<requests, reqObj, create, results, drivers, accept, trips,
                   notifications>>
    /\ UNCHANGED aux

\* the len(matches) == 0 branch: status write, Update, NotifyMatchTimeout
ProcessNoMatch(r) ==
    /\ task[r].pc = "noMatch"
    /\ \E updOk \in BOOLEAN, notifyOk \in BOOLEAN :
        /\ faults + Fails(updOk) + Fails(notifyOk) <= MaxFaults
        /\ faults' = faults + Fails(updOk) + Fails(notifyOk)
        /\ reqObj' = [reqObj EXCEPT ![r].status = MatchStatusOnNoMatch]
        /\ requests' = IF updOk THEN MatchRequestRepoUpdate(requests, reqObj'[r])
                       ELSE requests
        /\ notifications' = notifications \cup
               {[kind |-> "match_timeout", to |-> reqObj[r].passenger,
                 ref |-> <<r, "none">>, ok |-> notifyOk]}
        /\ task' = [task EXCEPT ![r].pc = NoMatchNextPc,
                                ![r].updErr = ~updOk]
    /\ UNCHANGED <<create, results, drivers, accept, trips>>
    /\ UNCHANGED aux

\* a loop that walks the list from its end
NextToSave_LastFirst(matches, idx) == matches[Len(matches) + 1 - idx]

\* "for _, match := range matches": the element of the iteration idx
NextToSave(matches, idx) == matches[idx]

\* one iteration of the loop over matches: matchResultRepo.Create, then
\* NotifyDriverMatch unless the write failed
ProcessSaveResult(r) ==
    /\ task[r].pc = "save"
    /\ task[r].idx <= Len(task[r].matches)
    /\ LET match == NextToSave(task[r].matches, task[r].idx)
           id == <<match.matchRequestID, match.driverID>>
       IN  \E createOk \in BOOLEAN, notifyOk \in BOOLEAN :
            /\ createOk \/ notifyOk
            /\ faults + Fails(createOk) + Fails(notifyOk) <= MaxFaults
            /\ faults' = faults + Fails(createOk) + Fails(notifyOk)
            /\ IF createOk
               THEN /\ results' = [results EXCEPT ![id] = match.status]
                    /\ notifications' = notifications \cup
                           {[kind |-> "driver_match", to |-> match.driverID,
                             ref |-> id, ok |-> notifyOk]}
               ELSE UNCHANGED <<results, notifications>>
            /\ task' = [task EXCEPT
                   ![r].idx = @ + 1,
                   ![r].writeErrs = IF createOk THEN @
                                    ELSE @ \cup {match.driverID}]
    /\ UNCHANGED <<requests, reqObj, create, drivers, accept, trips>>
    /\ UNCHANGED aux

\* a status constant that leaves the request as it was
MatchStatusOnMatch_Pending == MatchStatusPending

\* the status written after the loop
MatchStatusOnMatch == MatchStatusMatched

\* after the loop: status write and Update
ProcessMarkMatched(r) ==
    /\ task[r].pc = "save"
    /\ task[r].idx > Len(task[r].matches)
    /\ \E updOk \in BOOLEAN :
        /\ faults + Fails(updOk) <= MaxFaults
        /\ faults' = faults + Fails(updOk)
        /\ reqObj' = [reqObj EXCEPT ![r].status = MatchStatusOnMatch]
        /\ requests' = IF updOk THEN MatchRequestRepoUpdate(requests, reqObj'[r])
                       ELSE requests
        /\ task' = [task EXCEPT ![r].pc = "done", ![r].updErr = ~updOk]
    /\ UNCHANGED <<create, results, drivers, accept, trips, notifications>>
    /\ UNCHANGED aux

\* ------------------------------------------------------------- AcceptMatch
\* the status check left out
IsStillPending_Always(status) == TRUE

\* the check "match is still pending"
IsStillPending(status) == status = MatchResultStatusPending

\* the error of CreateTrip ignored
CreateTripNextPc_IgnoreError(tripOk) == "updateResult"

\* where AcceptMatch continues after ExternalService.CreateTrip
CreateTripNextPc(tripOk) == IF tripOk THEN "updateResult" ELSE "done"

\* an UPDATE without its WHERE clause: every row is written
UpdateAvailability_AllRows(table, driverID, available) ==
    [d \in DOMAIN table |->
        [table[d] EXCEPT !.isAvailable = available, !.idle = 0]]

\* DriverRepository.UpdateAvailability: is_available and last_active_time
UpdateAvailability(table, driverID, available) ==
    [table EXCEPT ![driverID].isAvailable = available, ![driverID].idle = 0]

\* matchResultRepo.GetByID, the driver check and the status check
AcceptGetResult(c) ==
    /\ accept[c].pc = "idle"
    /\ \A b \in CallIds : b < c => accept[b].pc # "idle"
    /\ \E driverID \in AcceptCallers, matchResultID \in AcceptTargets,
          getOk \in BOOLEAN :
        /\ faults + Fails(getOk) <= MaxFaults
        /\ faults' = faults + Fails(getOk)
        /\ LET call == [accept[c] EXCEPT !.driverID = driverID,
                                         !.resultID = matchResultID]
               status == results[matchResultID]
           IN  accept' = [accept EXCEPT ![c] =
                   IF ~getOk \/ status = "none"
                   THEN [call EXCEPT !.pc = "done", !.ret = CodeNotFound]
                   ELSE IF matchResultID[2] # driverID
                   THEN [call EXCEPT !.pc = "done", !.seen = status,
                                     !.ret = CodeUnauthorized]
                   ELSE IF ~IsStillPending(status)
                   THEN [call EXCEPT !.pc = "done", !.seen = status,
                                     !.ret = CodeInvalidOperation]
                   ELSE [call EXCEPT !.pc = "getRequest", !.seen = status]]
    /\ UNCHANGED <<requests, reqObj, create, task, results, drivers, trips,
                   notifications>>
    /\ UNCHANGED aux

\* matchRequestRepo.GetByID
AcceptGetRequest(c) ==
    /\ accept[c].pc = "getRequest"
    /\ \E getOk \in BOOLEAN :
        /\ faults + Fails(getOk) <= MaxFaults
        /\ faults' = faults + Fails(getOk)
        /\ accept' = [accept EXCEPT ![c] =
               IF ~getOk \/ requests[accept[c].resultID[1]].status = "none"
               THEN [@ EXCEPT !.pc = "done", !.ret = CodeNotFound]
               ELSE [@ EXCEPT !.pc = "createTrip"]]
    /\ UNCHANGED <<requests, reqObj, create, task, results, drivers, trips,
                   notifications>>
    /\ UNCHANGED aux

\* externalSvc.CreateTrip
AcceptCreateTrip(c) ==
    /\ accept[c].pc = "createTrip"
    /\ \E tripOk \in BOOLEAN :
        /\ faults + Fails(tripOk) <= MaxFaults
        /\ faults' = faults + Fails(tripOk)
        /\ trips' = IF tripOk
                    THEN trips \cup
                             {[call |-> c, result |-> accept[c].resultID,
                               driver |-> accept[c].driverID,
                               passenger |-> requests[accept[c].resultID[1]].passenger]}
                    ELSE trips
        /\ accept' = [accept EXCEPT
               ![c].pc = CreateTripNextPc(tripOk),
               ![c].tripErr = ~tripOk,
               ![c].ret = IF CreateTripNextPc(tripOk) = "done"
                          THEN CodeInternalError ELSE "none"]
    /\ UNCHANGED <<requests, reqObj, create, task, results, drivers,
                   notifications>>
    /\ UNCHANGED aux

\* an update that also expires the other pending results of the request
MatchResultRepoUpdate_ExpireSiblings(table, id, status) ==
    [x \in DOMAIN table |->
        IF x = id THEN status
        ELSE IF x[1] = id[1] /\ table[x] = MatchResultStatusPending
        THEN MatchResultStatusExpired
        ELSE table[x]]

\* MatchResultRepository.Update: UPDATE match_results ... WHERE id = $1
MatchResultRepoUpdate(table, id, status) == [table EXCEPT ![id] = status]

\* matchResult.Status = Accepted; matchResultRepo.Update
AcceptUpdateResult(c) ==
    /\ accept[c].pc = "updateResult"
    /\ \E updOk \in BOOLEAN :
        /\ faults + Fails(updOk) <= MaxFaults
        /\ faults' = faults + Fails(updOk)
        /\ results' = IF updOk
                      THEN MatchResultRepoUpdate(results, accept[c].resultID,
                                                 MatchResultStatusAccepted)
                      ELSE results
        /\ accept' = [accept EXCEPT ![c] =
               IF updOk THEN [@ EXCEPT !.pc = "finish"]
               ELSE [@ EXCEPT !.pc = "done", !.ret = CodeInternalError]]
    /\ UNCHANGED <<requests, reqObj, create, task, drivers, trips,
                   notifications>>
    /\ UNCHANGED aux

\* the error of NotifyPassengerMatch returned to the caller
AcceptResultAfterNotify_Propagated(notifyOk) ==
    IF notifyOk THEN Ok ELSE CodeInternalError

\* what AcceptMatch returns after NotifyPassengerMatch: the error is logged
AcceptResultAfterNotify(notifyOk) == Ok

\* driverRepo.UpdateAvailability, NotifyPassengerMatch, return of the response
AcceptFinish(c) ==
    /\ accept[c].pc = "finish"
    /\ \E availOk \in BOOLEAN, notifyOk \in BOOLEAN :
        /\ faults + Fails(availOk) + Fails(notifyOk) <= MaxFaults
        /\ faults' = faults + Fails(availOk) + Fails(notifyOk)
        /\ drivers' = IF availOk
                      THEN UpdateAvailability(drivers, accept[c].driverID, FALSE)
                      ELSE drivers
        /\ notifications' = notifications \cup
               {[kind |-> "passenger_match",
                 to |-> requests[accept[c].resultID[1]].passenger,
                 ref |-> accept[c].resultID, ok |-> notifyOk]}
        /\ accept' = [accept EXCEPT ![c].pc = "done",
                                    ![c].ret = AcceptResultAfterNotify(notifyOk)]
    /\ UNCHANGED <<requests, reqObj, create, task, results, trips>>
    /\ UNCHANGED aux

\* ------------------------------------------------------------ specification
Next ==
    \/ \E r \in ReqIds : CreateMatchRequest(r)
    \/ \E r \in ReqIds : BuildResponse(r)
    \/ \E r \in ReqIds : ProcessFindMatches(r)
    \/ \E r \in ReqIds : ProcessNoMatch(r)
    \/ \E r \in ReqIds : ProcessSaveResult(r)
    \/ \E r \in ReqIds : ProcessMarkMatched(r)
    \/ \E c \in CallIds : AcceptGetResult(c)
    \/ \E c \in CallIds : AcceptGetRequest(c)
    \/ \E c \in CallIds : AcceptCreateTrip(c)
    \/ \E c \in CallIds : AcceptUpdateResult(c)
    \/ \E c \in CallIds : AcceptFinish(c)

Spec == Init /\ [][Next]_vars

TypeOK ==
    /\ \A r \in ReqIds : requests[r].status \in MatchStatuses \cup {"none"}
    /\ \A id \in ResultIds : results[id] \in
           {"none", MatchResultStatusPending, MatchResultStatusAccepted,
            MatchResultStatusRejected, MatchResultStatusExpired}
    /\ faults \in 0..MaxFaults

\* ------------------------------------------------------------ shorthands
TerminalStatuses == {MatchStatusMatched, MatchStatusExpired, MatchStatusCancelled}

ResultsOf(r) == {d \in Drivers : results[<<r, d>>] # "none"}

\* the step of call c in which AcceptMatch reads the result and checks it
IsAcceptGetResultStep(c) == accept[c].pc = "idle" /\ accept'[c].pc # "idle"

\* the step of call c in which AcceptMatch returns
IsAcceptReturnStep(c) == accept[c].pc # "done" /\ accept'[c].pc = "done"

StoresUnchanged ==
    UNCHANGED <<requests, results, drivers, trips, notifications>>

\* ---------------------------------------------------------------------- C1
\* C1: every successful CreateMatchRequest returns a response with status
\* Pending and estimated-match count 0, however the caller interleaves with
\* the task it spawned.
C1_ResponseIsPending ==
    \A r \in ReqIds :
        (create[r].pc = "returned" /\ create[r].err = Ok)
            => /\ create[r].status = MatchStatusPending
               /\ create[r].estimatedMatches = 0

\* ---------------------------------------------------------------------- C2
\* C2: a stored MatchRequest whose status is Matched, Expired or Cancelled
\* keeps that status in every later step.
C2_StatusMonotonic ==
    [][\A r \in ReqIds :
          requests[r].status \in TerminalStatuses
              => requests'[r].status = requests[r].status]_vars

\* a matched request one of whose results has been accepted, next to an
\* expired request
C2_Witness ==
    /\ \E r \in ReqIds, d \in Drivers :
          /\ requests[r].status = MatchStatusMatched
          /\ results[<<r, d>>] = MatchResultStatusAccepted
    /\ \E r \in ReqIds : requests[r].status = MatchStatusExpired

\* ---------------------------------------------------------------------- C3
\* C3: of the AcceptMatch calls on one MatchResult at most one returns
\* success, and at most one trip is created for that result.
C3_AtMostOneAcceptPerResult ==
    \A id \in ResultIds :
        /\ Cardinality({c \in CallIds : accept[c].resultID = id
                                        /\ accept[c].ret = Ok}) <= 1
        /\ Cardinality({t \in trips : t.result = id}) <= 1

\* ---------------------------------------------------------------------- C4
\* C4: a driver never succeeds in two AcceptMatch calls on results of
\* different requests, and never holds trips of two requests (availability
\* is never set back to true here).
C4_OneTripPerDriver ==
    /\ \A b, c \in CallIds :
          (/\ accept[b].ret = Ok /\ accept[c].ret = Ok
           /\ accept[b].driverID = accept[c].driverID)
              => accept[b].resultID[1] = accept[c].resultID[1]
    /\ \A t, u \in trips :
          t.driver = u.driver => t.result[1] = u.result[1]

\* ---------------------------------------------------------------------- C5
\* C5: at most one MatchResult of a request has status Accepted.
C5_AtMostOneAcceptedPerRequest ==
    \A r \in ReqIds :
        Cardinality({d \in Drivers :
                        results[<<r, d>>] = MatchResultStatusAccepted}) <= 1

C7_NotFoundIffAbsent ==
    [][\A c \in CallIds :
          /\ (IsAcceptReturnStep(c) /\ accept'[c].ret = CodeNotFound)
                => /\ results[accept'[c].resultID] = "none"
                   /\ StoresUnchanged
          /\ (IsAcceptGetResultStep(c) /\ results[accept'[c].resultID] = "none")
                => /\ accept'[c].pc = "done"
                   /\ accept'[c].ret = CodeNotFound
          /\ (/\ IsAcceptGetResultStep(c)
              /\ results[accept'[c].resultID] # "none"
              /\ accept'[c].driverID # accept'[c].resultID[2])
                => /\ accept'[c].pc = "done"
                   /\ accept'[c].ret = CodeUnauthorized
                   /\ StoresUnchanged]_vars

\* ---------------------------------------------------------------------- C8
\* C8: the step in which CreateTrip fails ends the call with an error and
\* leaves the MatchResult, the driver, the trips and the notifications as
\* they were.
C8_TripFailureChangesNothing ==
    [][\A c \in CallIds :
          (accept[c].pc = "createTrip" /\ accept'[c].tripErr)
              => /\ accept'[c].pc = "done"
                 /\ accept'[c].ret = CodeInternalError
                 /\ results'[accept[c].resultID] = results[accept[c].resultID]
                 /\ StoresUnchanged]_vars

\* a call whose CreateTrip failed, on a result that is still Pending and a
\* driver who is still available
C8_Witness ==
    \E c \in CallIds :
        /\ accept[c].tripErr
        /\ accept[c].pc = "done"
        /\ results[accept[c].resultID] = MatchResultStatusPending
        /\ drivers[accept[c].driverID].isAvailable

\* ---------------------------------------------------------------------- C9
\* C9: once AcceptMatch has returned success, the stored result is Accepted
\* and the accepting driver's stored availability is false.
C9_SuccessMeansAcceptedAndUnavailable ==
    \A c \in CallIds :
        accept[c].ret = Ok
            => /\ results[accept[c].resultID] = MatchResultStatusAccepted
               /\ ~drivers[accept[c].driverID].isAvailable

\* --------------------------------------------------------------------- C10
NoMatchNotified(r) ==
    \E n \in notifications :
        n.kind = "match_timeout" /\ n.to = requests[r].passenger /\ n.ref[1] = r

\* C10 as stated: when the filtered candidate set of a request is empty, the
\* finished task has created no MatchResult row, the stored status is
\* Expired and the no-match notification has been sent.
C10_EmptyPoolExpires ==
    \A r \in ReqIds :
        (task[r].found /\ Len(task[r].filtered) = 0)
            => /\ ResultsOf(r) = {}
               /\ task[r].pc = "done"
                    => /\ requests[r].status = MatchStatusExpired
                       /\ NoMatchNotified(r)

\* C10 amended: when the filtered candidate set of a request is empty, the
\* task creates no MatchResult row and, when it has finished, has called
\* NotifyMatchTimeout for the passenger; the stored status is Expired if the
\* status update succeeded and stays Pending if it failed.
C10_EmptyPoolExpiresUnlessUpdateFails ==
    \A r \in ReqIds :
        (task[r].found /\ Len(task[r].filtered) = 0)
            => /\ ResultsOf(r) = {}
               /\ task[r].pc = "done"
                    => /\ requests[r].status =
                              IF task[r].updErr THEN MatchStatusPending
                              ELSE MatchStatusExpired
                       /\ NoMatchNotified(r)

\* a finished task that found no candidate and expired its request
C10_Witness ==
    \E r \in ReqIds :
        /\ task[r].found
        /\ Len(task[r].filtered) = 0
        /\ task[r].pc = "done"
        /\ requests[r].status = MatchStatusExpired
        /\ NoMatchNotified(r)

\* --------------------------------------------------------------------- C11
\* the drivers of the list FindMatches returned to the task of request r
MatchedDrivers(r) ==
    {task[r].matches[i].driverID : i \in 1..Len(task[r].matches)}

DriverNotified(r, d) ==
    \E n \in notifications :
        n.kind = "driver_match" /\ n.to = d /\ n.ref = <<r, d>>

\* a finished task whose filtered candidate set was not empty
FinishedWithCandidates(r) ==
    task[r].pc = "done" /\ task[r].found /\ Len(task[r].filtered) > 0

\* C11 as stated: when the task of a request with a non-empty filtered
\* candidate set has finished, a MatchResult is stored for every driver of
\* the returned list and for no other driver (written as Pending; a driver
\* may have accepted it since), each of those drivers has been sent
\* NotifyDriverMatch, and the stored request status is Matched.
C11_AllCandidatesStoredAndMatched ==
    \A r \in ReqIds :
        FinishedWithCandidates(r)
            => /\ ResultsOf(r) = MatchedDrivers(r)
               /\ \A d \in MatchedDrivers(r) :
                     /\ results[<<r, d>>] \in {MatchResultStatusPending,
                                               MatchResultStatusAccepted}
                     /\ DriverNotified(r, d)
               /\ requests[r].status = MatchStatusMatched

\* C11 amended: when the task of a request with a non-empty filtered
\* candidate set has finished, a MatchResult is stored (written as Pending)
\* exactly for the drivers of the returned list whose write succeeded, exactly
\* those drivers have been sent NotifyDriverMatch, and the stored request
\* status is Matched if every write and the final status update succeeded
\* and Pending if that update failed.
C11_StoredUnlessWriteFails ==
    \A r \in ReqIds :
        FinishedWithCandidates(r)
            => /\ ResultsOf(r) = MatchedDrivers(r) \ task[r].writeErrs
               /\ \A d \in MatchedDrivers(r) \ task[r].writeErrs :
                     /\ results[<<r, d>>] \in {MatchResultStatusPending,
                                               MatchResultStatusAccepted}
                     /\ DriverNotified(r, d)
               /\ \A d \in task[r].writeErrs : ~DriverNotified(r, d)
               /\ task[r].updErr => requests[r].status = MatchStatusPending
               /\ (task[r].writeErrs = {} /\ ~task[r].updErr)
                     => requests[r].status = MatchStatusMatched

\* a finished task that stored and announced two results and marked its
\* request Matched
C11_Witness ==
    \E r \in ReqIds :
        /\ FinishedWithCandidates(r)
        /\ Cardinality(MatchedDrivers(r)) = 2
        /\ \A d \in MatchedDrivers(r) :
              results[<<r, d>>] = MatchResultStatusPending /\ DriverNotified(r, d)
        /\ requests[r].status = MatchStatusMatched

\* --------------------------------------------------------------------- C12
\* an error occurred inside the task of request r
TaskFailed(r) ==
    /\ task[r].pc = "done"
    /\ ~task[r].found \/ task[r].writeErrs # {} \/ task[r].updErr

\* C12: after an error inside the background task (candidate fetch,
\* MatchResult write or status update) the caller of CreateMatchRequest has
\* been given no error and the stored request status is still Pending.
C12_TaskErrorLeavesPending ==
    \A r \in ReqIds :
        TaskFailed(r)
            => /\ create[r].err \in {"none", Ok}
               /\ requests[r].status = MatchStatusPending

\* --------------------------------------------------------------------- C13
\* the notifications whose delivery failed in this step
FailedNow == {n \in notifications' \ notifications : ~n.ok}

\* C13: the step in which a notification fails still completes the
\* operation that sent it and sends nothing twice: AcceptMatch returns
\* success with the result Accepted, the save loop keeps the row it wrote and
\* moves on to the next result, the no-match branch ends with the request
\* Expired unless its own update failed; and a task that met no store
\* failure ends with all results stored and the request Matched, or with the
\* request Expired, whatever happened to its notifications.
C13_NotificationFailureIsIgnored ==
    [][/\ Cardinality(notifications' \ notifications) <= 1
       /\ \A c \in CallIds :
             (accept[c].pc = "finish" /\ accept'[c].pc = "done" /\ FailedNow # {})
                 => /\ accept'[c].ret = Ok
                    /\ results'[accept[c].resultID] = MatchResultStatusAccepted
       /\ \A r \in ReqIds :
             (task[r].pc = "save" /\ task'[r] # task[r] /\ FailedNow # {})
                 => /\ task'[r].pc = "save"
                    /\ task'[r].idx = task[r].idx + 1
                    /\ \A n \in FailedNow :
                          results'[n.ref] = MatchResultStatusPending
       /\ \A r \in ReqIds :
             (task[r].pc = "noMatch" /\ task'[r] # task[r] /\ FailedNow # {})
                 => /\ task'[r].pc = "done"
                    /\ requests'[r].status =
                           IF task'[r].updErr THEN MatchStatusPending
                           ELSE MatchStatusExpired
       /\ \A r \in ReqIds :
             (/\ task'[r].pc = "done" /\ task'[r].found
              /\ task'[r].writeErrs = {} /\ ~task'[r].updErr)
                 => IF Len(task'[r].filtered) = 0
                    THEN requests'[r].status = MatchStatusExpired
                    ELSE /\ requests'[r].status = MatchStatusMatched
                         /\ \A i \in 1..Len(task'[r].matches) :
                               results'[<<r, task'[r].matches[i].driverID>>]
                                   # "none"]_vars

\* a task that finished with its request Matched and both results stored
\* although the notification of a driver failed
C13_Witness ==
    \E r \in ReqIds :
        /\ FinishedWithCandidates(r)
        /\ requests[r].status = MatchStatusMatched
        /\ Cardinality(ResultsOf(r)) = 2
        /\ \E n \in notifications :
              n.kind = "driver_match" /\ n.ref[1] = r /\ ~n.ok

\* --------------------------------------------------------------------- C14
\* the conditions a driver must meet to be matched with a request
Eligible(driver, request) ==
    /\ driver.isAvailable
    /\ driver.rating >= MinDriverRating
    /\ request.preferredCarType = "" \/ driver.carType = request.preferredCarType
    /\ CalculateDistance(driver.position, request.pickup) <= request.maxDistance
    /\ CalculateDistance(driver.position, request.pickup) <= MaxSearchRadius
    /\ driver.idle <= FreshnessMinutes

\* C14: every driver in the list FindMatches returns is, in the drivers
\* table read by that call, available, rated at least the minimum, of the
\* preferred class if one is given, no farther from the pickup than the
\* request's own maximum distance and active within the last 5 minutes; and
\* a MatchResult row is only ever created for a driver of that list.
C14_OnlyEligibleDriversMatched ==
    [][\A r \in ReqIds :
          /\ (task[r].pc = "findMatches" /\ task'[r].found)
                => \A i \in 1..Len(task'[r].matches) :
                      Eligible(drivers[task'[r].matches[i].driverID], reqObj[r])
          /\ \A d \in Drivers :
                (results[<<r, d>>] = "none" /\ results'[<<r, d>>] # "none")
                    => /\ task[r].pc = "save"
                       /\ task[r].idx <= Len(task[r].matches)
                       /\ task[r].matches[task[r].idx].driverID = d]_vars

\* a request processed after d1 became unavailable: of the five drivers only
\* d2 was matched with it
C14_Witness ==
    \E r \in ReqIds :
        /\ task[r].pc = "done"
        /\ requests[r].preferredCarType = ""
        /\ ~drivers["d1"].isAvailable
        /\ MatchedDrivers(r) = {"d2"}
        /\ ResultsOf(r) = {"d2"}

\* ------------------------------------------- the engine called directly
\* The matching engine and the error mapping of the HTTP layer are functions
\* of their arguments.  SpecFunctions draws the arguments from the sets
\* below and applies the functions to them.

MaxCandidates == 13     \* candidates per call
MaxDegenerate == 3      \* candidates per call with a one-point price range

\* candidate i of n: every candidate passes filterDrivers.  In the pattern
\* "ordered" the list is in the order of the distances the engine computes;
\* in "inverted" the last but one candidate lies one km farther out, as
\* when the distance of the query and the distance of the engine disagree.
Candidate(i, n, pattern) ==
    [id |-> i,
     position |-> (i \div 2)
                     + (IF pattern = "inverted" /\ i = n - 1 THEN 1 ELSE 0),
     carType |-> CASE i % 3 = 1 -> "motorbike"
                   [] i % 3 = 2 -> "car_4_seat"
                   [] OTHER -> "car_7_seat",
     rating |-> 50 - (((i - 1) * 7) % 21),
     isAvailable |-> TRUE,
     idle |-> i % 6,
     completedTrips |-> (60 + (i - 1) * 17) % 120,
     maxDistance |-> DefaultMaxDistance,
     preferredAreas |-> IF i % 2 = 0 THEN <<>> ELSE <<i % 4>>]

Candidates(n, pattern) == [i \in 1..n |-> Candidate(i, n, pattern)]

AlgorithmInputs == {AlgorithmNearest, AlgorithmWeighted, AlgorithmML,
                    AlgorithmHybrid, "unknown"}

\* price ranges in thousand VND: none, one around the estimates, one whose
\* minimum lies above every estimate
PriceRangeInputs == {NoPriceRange,
                     [minPrice |-> 10, maxPrice |-> 40],
                     [minPrice |-> 50, maxPrice |-> 100]}

\* a range of one point, equal to the estimate of a 4 seat car
OnePointPriceRange == [minPrice |-> 24, maxPrice |-> 24]

\* a configuration that weighs the price most
PriceHeavyCriteria ==
    [distanceWeight |-> 10, ratingWeight |-> 10, timeWeight |-> 10,
     priceWeight |-> 60, experienceWeight |-> 10]

CriteriaInputs == {DefaultMatchingCriteria, PriceHeavyCriteria}

EngineInputs ==
    [fn : {"engine"}, n : 0..MaxCandidates, pattern : {"ordered", "inverted"},
     algorithm : AlgorithmInputs, priceRange : PriceRangeInputs,
     criteria : CriteriaInputs]
    \cup
    [fn : {"engine"}, n : 1..MaxDegenerate, pattern : {"ordered"},
     algorithm : AlgorithmInputs, priceRange : {OnePointPriceRange},
     criteria : CriteriaInputs]

\* the request of an engine call
RequestOf(in) ==
    [id |-> 1, passenger |-> "p1", pickup |-> 0, dropoff |-> DropoffInput,
     requestTime |-> RequestTimeInput, preferredCarType |-> "",
     maxDistance |-> 10, priceRange |-> in.priceRange,
     status |-> MatchStatusPending]

\* the configuration of an engine call
ConfigOf(in) ==
    [DefaultMatchingConfig EXCEPT !.algorithm = in.algorithm,
                                  !.criteria = in.criteria]

ErrorCodes == {CodeInvalidInput, CodeNotFound, CodeUserNotFound,
               CodeUnauthorized, CodeForbidden, CodeConflict,
               CodeInternalError, CodeExternalError, CodeValidationError,
               CodeInvalidOperation, CodeTimeout}

ErrorMessages == {"match result not found", "failed to create trip"}

\* the errors handed to handleError: an *AppError or any other error
ErrorInputs ==
    [fn : {"error"}, kind : {"app"}, code : ErrorCodes, message : ErrorMessages]
    \cup {[fn |-> "error", kind |-> "other", code |-> "", message |-> ""]}

\* MatchingHandler.handleError: the status and the body of the response; an
\* empty code or message is left out of the body (omitempty)
handleError(err) ==
    IF err.kind = "app"
    THEN [status |-> HTTPStatusCode(err.code),
          error |-> <<err.code, err.message>>,
          code |-> err.code,
          message |-> err.message]
    ELSE [status |-> 500,
          error |-> <<"internal server error">>,
          code |-> CodeInternalError,
          message |-> ""]

MaxTripKm == 5          \* length of the trips priced directly

\* car type strings, two of them unknown to the engine
CarTypeStrings == {"motorbike", "car_4_seat", "car_7_seat", "bus", ""}

\* the arguments of EstimatePrice
PriceInputs ==
    [fn : {"price"}, from : {0}, to : 0..MaxTripKm, carType : CarTypeStrings]

\* request times in minutes since midnight, around the limits of the
\* peak hours
TimeOfDayInputs == {0, 419, 420, 450, 539, 540, 570, 599, 600, 720,
                    1019, 1020, 1139, 1140, 1170, 1199, 1200, 1439}

\* the request a time preference is computed for
TimeInputs == [fn : {"time"}, requestTime : TimeOfDayInputs]

\* estimates (thousand VND) and price ranges for the price score: the
\* estimate below, at, inside and above the range, and a one-point range
PriceScoreInputs ==
    [fn : {"priceScore"}, estimatedPrice : {20, 24, 30, 40, 50},
     priceRange : {NoPriceRange,
                   [minPrice |-> 20, maxPrice |-> 40],
                   [minPrice |-> 30, maxPrice |-> 60],
                   OnePointPriceRange}]

InitFunctions ==
    /\ InitLifecycle
    /\ listing = NoListing
    /\ input \in EngineInputs \cup ErrorInputs \cup PriceInputs
                  \cup TimeInputs \cup PriceScoreInputs
    /\ output = NoCall

\* FindMatches over a drivers table that holds the candidates
CallFindMatches ==
    /\ input.fn = "engine"
    /\ output = NoCall
    /\ \E fm \in FindMatches(Candidates(input.n, input.pattern),
                             RequestOf(input), ConfigOf(input)) :
           output' = [fn |-> "FindMatches", filtered |-> fm.filtered,
                      ranked |-> fm.ranked, matches |-> fm.matches]
    /\ UNCHANGED <<lifecycle, listing, input>>

\* the configured strategy over the candidate list as given
CallStrategy ==
    /\ input.fn = "engine"
    /\ output = NoCall
    /\ input.n > 0
    /\ \E ranked \in ApplyAlgorithm(RequestOf(input),
                                    Candidates(input.n, input.pattern),
                                    ConfigOf(input)) :
           output' = [fn |-> "strategy", ranked |-> ranked]
    /\ UNCHANGED <<lifecycle, listing, input>>

\* handleError over an error
HandleError ==
    /\ input.fn = "error"
    /\ output = NoCall
    /\ output' = [fn |-> "handleError", response |-> handleError(input)]
    /\ UNCHANGED <<lifecycle, listing, input>>

\* EstimatePrice; its error result is nil on every path
CallEstimatePrice ==
    /\ input.fn = "price"
    /\ output = NoCall
    /\ output' = [fn |-> "EstimatePrice",
                  price |-> EstimatePrice(input.from, input.to, input.carType),
                  err |-> Ok]
    /\ UNCHANGED <<lifecycle, listing, input>>

\* calculateTimePreference for a request made at the given time
CallTimePreference ==
    /\ input.fn = "time"
    /\ output = NoCall
    /\ output' =
          [fn |-> "calculateTimePreference",
           value |-> calculateTimePreference(
                         [id |-> 1, passenger |-> "p1", pickup |-> 0,
                          dropoff |-> DropoffInput,
                          requestTime |-> input.requestTime,
                          preferredCarType |-> "", maxDistance |-> 10,
                          priceRange |-> NoPriceRange,
                          status |-> MatchStatusPending])]
    /\ UNCHANGED <<lifecycle, listing, input>>

\* the price score computed inside ScoreMatch
CallPriceScore ==
    /\ input.fn = "priceScore"
    /\ output = NoCall
    /\ output' = [fn |-> "priceScore",
                  score |-> PriceScore(input.estimatedPrice, input.priceRange)]
    /\ UNCHANGED <<lifecycle, listing, input>>

NextFunctions ==
    \/ CallFindMatches
    \/ CallStrategy
    \/ HandleError
    \/ CallEstimatePrice
    \/ CallTimePreference
    \/ CallPriceScore

SpecFunctions == InitFunctions /\ [][NextFunctions]_vars

\* ---------------------------------------------------------------- C15
\* C15: the list FindMatches returns has at most MaxDrivers entries and is
\* the prefix of the list its strategy ranked, for the four strategies and
\* for an unknown algorithm name (which falls back to weighted), and so at
\* most MaxDrivers results are stored for a request.
C15_ReturnsTopRankedPrefix ==
    /\ output.fn = "FindMatches"
          => /\ Len(output.matches) <= MaxDrivers
             /\ Len(output.matches)
                    = Min(Len(output.ranked), MaxDrivers)
             /\ \A i \in 1..Len(output.matches) :
                    output.matches[i] = output.ranked[i]
             /\ Len(output.ranked) = Len(output.filtered)
             /\ output.ranked \in ApplyAlgorithm(RequestOf(input),
                                                output.filtered,
                                                ConfigOf(input))

\* a call that ranked more candidates than it returned, with the fallback
C15_Witness ==
    /\ output.fn = "FindMatches"
    /\ input.algorithm = "unknown"
    /\ Len(output.ranked) > MaxDrivers
    /\ Len(output.matches) = MaxDrivers

\* ---------------------------------------------------- GetAvailableMatches
\* the drivers that ask for their matches and the limits they pass
ListingCallers == {"d1", "d2", "d5"}
LimitInputs == {1, 2}

\* uuid.New(): the k-th identifier generated by a call; no row has it
NewUUID(k) == <<k, "new">>

RECURSIVE OrderByCreatedAt(_, _)
\* ORDER BY created_at ASC: request ids are given out in creation order
OrderByCreatedAt(table, S) ==
    IF S = {} THEN <<>>
    ELSE LET m == CHOOSE x \in S : \A y \in S : x <= y
         IN  <<table[m]>> \o OrderByCreatedAt(table, S \ {m})

\* MatchRequestRepository.GetPendingRequests
GetPendingRequests(table, limit) ==
    Prefix(OrderByCreatedAt(table,
               {r \in DOMAIN table : table[r].status = MatchStatusPending}),
           limit)

\* "if len(responses) >= limit { break }"
ReachedLimit(responses, limit) == Len(responses) >= limit

RECURSIVE BuildResponses(_, _, _, _)
\* the loop of GetAvailableMatches over the pending requests
BuildResponses(pendingRequests, driver, limit, responses) ==
    IF pendingRequests = <<>> THEN responses
    ELSE LET req == Head(pendingRequests)
             distance == CalculateDistance(driver.position, req.pickup)
         IN  IF distance > driver.maxDistance
             THEN BuildResponses(Tail(pendingRequests), driver, limit, responses)
             ELSE LET item ==
                          [id |-> NewUUID(Len(responses) + 1),
                           matchRequestID |-> req.id,
                           driverID |-> driver.id,
                           passengerID |-> req.passenger,
                           score |-> ScoreMatch(req, driver,
                                                DefaultMatchingConfig.criteria),
                           estimatedDistance |-> distance,
                           estimatedTime |-> EstimateTime(driver.position,
                                                          req.pickup),
                           estimatedPrice |-> EstimatePrice(req.pickup,
                                                            req.dropoff,
                                                            driver.carType),
                           status |-> "pending"]
                      next == Append(responses, item)
                  IN  IF ReachedLimit(next, limit) THEN next
                      ELSE BuildResponses(Tail(pendingRequests), driver,
                                          limit, next)

\* GetAvailableMatches up to the check of the driver: driverRepo.GetByID and
\* the early return for an unavailable driver
ListingGetDriver ==
    /\ listing.pc = "idle"
    /\ \E d \in ListingCallers, limit \in LimitInputs, getOk \in BOOLEAN :
        /\ faults + Fails(getOk) <= MaxFaults
        /\ faults' = faults + Fails(getOk)
        /\ listing' =
              IF ~getOk
              THEN [pc |-> "done", driverID |-> d, limit |-> limit,
                    driver |-> "none", err |-> CodeNotFound, items |-> <<>>]
              ELSE IF ~drivers[d].isAvailable
              THEN [pc |-> "done", driverID |-> d, limit |-> limit,
                    driver |-> drivers[d], err |-> Ok, items |-> <<>>]
              ELSE [pc |-> "getPending", driverID |-> d, limit |-> limit,
                    driver |-> drivers[d], err |-> "none", items |-> <<>>]
    /\ UNCHANGED <<requests, reqObj, create, task, results, drivers, accept,
                   trips, notifications, input, output>>

\* GetAvailableMatches from matchRequestRepo.GetPendingRequests to the return;
\* the driver is the row read by the first step
ListingGetPending ==
    /\ listing.pc = "getPending"
    /\ \E queryOk \in BOOLEAN :
        /\ faults + Fails(queryOk) <= MaxFaults
        /\ faults' = faults + Fails(queryOk)
        /\ listing' =
              IF ~queryOk
              THEN [listing EXCEPT !.pc = "done", !.err = CodeInternalError]
              ELSE [listing EXCEPT
                       !.pc = "done", !.err = Ok,
                       !.items = BuildResponses(
                                     GetPendingRequests(requests,
                                                        listing.limit * 2),
                                     listing.driver,
                                     listing.limit, <<>>)]
    /\ UNCHANGED <<requests, reqObj, create, task, results, drivers, accept,
                   trips, notifications, input, output>>

\* requests, their tasks and one driver listing its matches
NextListing ==
    \/ \E r \in ReqIds : CreateMatchRequest(r)
    \/ \E r \in ReqIds : BuildResponse(r)
    \/ \E r \in ReqIds : ProcessFindMatches(r)
    \/ \E r \in ReqIds : ProcessNoMatch(r)
    \/ \E r \in ReqIds : ProcessSaveResult(r)
    \/ \E r \in ReqIds : ProcessMarkMatched(r)
    \/ ListingGetDriver
    \/ ListingGetPending

SpecListing == Init /\ [][NextListing]_vars

\* ---------------------------------------------------------------- C16
\* C16: every item GetAvailableMatches(driverId, limit) returns is a stored
\* MatchResult of that driver with status Pending, so that the driver can
\* pass its id to AcceptMatch, and at most limit items are returned.
C16_ItemsAreStoredPendingResults ==
    (listing.pc = "done" /\ listing.err = Ok)
        => /\ Len(listing.items) <= listing.limit
           /\ \A i \in 1..Len(listing.items) :
                  /\ listing.items[i].id \in ResultIds
                  /\ results[listing.items[i].id] = MatchResultStatusPending
                  /\ listing.items[i].id[2] = listing.driverID

\* ---------------------------------------------------------------- C17
\* C17 as stated: the response to an error has status 404 for NotFound, 400
\* for ValidationError, 401 for Unauthorized, 409 for Conflict and 500 for
\* every other kind, and carries a code and a message.
C17_FourKindsElse500 ==
    output.fn = "handleError"
        => /\ output.response.status =
                  (CASE input.kind = "app" /\ input.code = CodeNotFound -> 404
                     [] input.kind = "app" /\ input.code = CodeValidationError -> 400
                     [] input.kind = "app" /\ input.code = CodeUnauthorized -> 401
                     [] input.kind = "app" /\ input.code = CodeConflict -> 409
                     [] OTHER -> 500)
           /\ output.response.code # ""
           /\ output.response.message # ""

\* C17 amended: the response to an application error has status 400 for
\* InvalidInput, ValidationError and InvalidOperation, 404 for NotFound and
\* UserNotFound, 401 for Unauthorized, 403 for Forbidden, 409 for Conflict,
\* 408 for Timeout and 500 for InternalError and ExternalError, and carries
\* the code and the message of the error; the response to any other error
\* has status 500 and the code INTERNAL_ERROR and carries no message.
C17_StatusByCode ==
    output.fn = "handleError"
        => IF input.kind = "app"
           THEN /\ input.code \in {CodeInvalidInput, CodeValidationError,
                                   CodeInvalidOperation}
                      => output.response.status = 400
                /\ input.code \in {CodeNotFound, CodeUserNotFound}
                      => output.response.status = 404
                /\ input.code = CodeUnauthorized
                      => output.response.status = 401
                /\ input.code = CodeForbidden => output.response.status = 403
                /\ input.code = CodeConflict => output.response.status = 409
                /\ input.code = CodeTimeout => output.response.status = 408
                /\ input.code \in {CodeInternalError, CodeExternalError}
                      => output.response.status = 500
                /\ output.response.code = input.code
                /\ output.response.message = input.message
                /\ output.response.message # ""
           ELSE /\ output.response.status = 500
                /\ output.response.code = CodeInternalError
                /\ output.response.message = ""

\* the error AcceptMatch returns for a resolved result, answered with 400
C17_Witness ==
    /\ output.fn = "handleError"
    /\ input.kind = "app"
    /\ input.code = CodeInvalidOperation
    /\ output.response.status = 400
    /\ output.response.code = CodeInvalidOperation

\* ---------------------------------------------------------------- C18
\* C18: every score in a list returned by FindMatches or by one of the four
\* strategies is a number in [0, 1].
C18_ScoresInUnitInterval ==
    /\ output.fn = "FindMatches"
          => \A i \in 1..Len(output.matches) :
                 /\ IsFinite(output.matches[i].score)
                 /\ output.matches[i].score >= 0
                 /\ output.matches[i].score <= One
    /\ output.fn = "strategy"
          => \A i \in 1..Len(output.ranked) :
                 /\ IsFinite(output.ranked[i].score)
                 /\ output.ranked[i].score >= 0
                 /\ output.ranked[i].score <= One

\* ---------------------------------------------------------------- C19
\* the candidate list of the call in input
CandidatesOf(in) == Candidates(in.n, in.pattern)

\* 0.3 * s1 + 0.4 * s2 + 0.3 * s3 for one candidate, from the scores the
\* three strategies give it
CombinedScore(in, driver) ==
    LET s1 == NearestScore(RequestOf(in), driver)
        s2 == ScoreMatch(RequestOf(in), driver, in.criteria)
        s3 == calculateMLScore(ExtractFeatures(RequestOf(in), driver),
                               in.criteria)
    IN  FloatAdd(FloatAdd(ScaleScore(s1, 3), ScaleScore(s2, 4)),
                 ScaleScore(s3, 3))

\* no entry of the list is followed by one with a greater score
IsDescending(list) ==
    \A i, j \in 1..Len(list) :
        i < j => ~FloatLess(list[i].score, list[j].score)

\* one result for every candidate, each with the combined score
OnePerCandidateCombined(in, list) ==
    /\ Len(list) = in.n
    /\ {list[i].driverID : i \in 1..Len(list)} = 1..in.n
    /\ \A i \in 1..Len(list) :
           list[i].score = CombinedScore(in, CandidatesOf(in)[list[i].driverID])

\* C19: the hybrid strategy returns exactly one result for every candidate,
\* with the score 0.3 * s1 + 0.4 * s2 + 0.3 * s3 of the candidate's nearest,
\* weighted and feature-based scores, in descending order of that score.
C19_HybridCombinesAndSorts ==
    (output.fn = "strategy" /\ input.algorithm = AlgorithmHybrid)
        => /\ OnePerCandidateCombined(input, output.ranked)
           /\ IsDescending(output.ranked)

\* ---------------------------------------------------------------- C20
\* the distance of a candidate of the call in input to the pickup
DistanceOf(in, driverID) ==
    CalculateDistance(CandidatesOf(in)[driverID].position, RequestOf(in).pickup)

\* one result for every candidate, in ascending order of the distance, each
\* with the score 1 / (1 + distance)
IsNearestRanking(in, list) ==
    /\ Len(list) = in.n
    /\ {list[i].driverID : i \in 1..Len(list)} = 1..in.n
    /\ \A i \in 1..Len(list) :
           /\ list[i].estimatedDistance = DistanceOf(in, list[i].driverID)
           /\ list[i].score = One \div (1 + DistanceOf(in, list[i].driverID))
    /\ \A i, j \in 1..Len(list) :
           i < j => list[i].estimatedDistance <= list[j].estimatedDistance

\* candidates at the same distance are in the order of the input list, in
\* which candidate k is the k-th entry
KeepsInputOrderOfTies(list) ==
    \A i, j \in 1..Len(list) :
        (i < j /\ list[i].estimatedDistance = list[j].estimatedDistance)
            => list[i].driverID < list[j].driverID

\* C20: the nearest strategy returns the candidates in ascending order of
\* their distance to the pickup with the score 1 / (1 + distance), and two
\* candidates at the same distance keep their order of the input list.
C20_NearestAscendingAndStable ==
    (output.fn = "strategy" /\ input.algorithm = AlgorithmNearest)
        => /\ IsNearestRanking(input, output.ranked)
           /\ KeepsInputOrderOfTies(output.ranked)

\* ---------------------------------------------------------------- C21
\* C21: EstimatePrice returns max(20000, distance * 8000 * multiplier) VND
\* with the multiplier 1.0 for motorbike, 1.5 for car_4_seat, 2.0 for
\* car_7_seat and 1.5 for any other string, and no error; below the minimum
\* fare it returns exactly the minimum fare.  Prices are in thousand VND.
C21_EstimatePriceFormula ==
    output.fn = "EstimatePrice"
        => LET distance == Abs(input.to - input.from)
               tenths == CASE input.carType = "motorbike" -> 10
                           [] input.carType = "car_7_seat" -> 20
                           [] OTHER -> 15
               raw == distance * 8 * tenths     \* ten times the price
           IN  /\ output.err = Ok
               /\ raw < 200 => output.price = 20
               /\ raw >= 200 => output.price * 10 = raw

\* an unknown car type priced at the minimum fare
C21_Witness ==
    /\ output.fn = "EstimatePrice"
    /\ input.carType = "bus"
    /\ Abs(input.to - input.from) = 1
    /\ output.price = MinimumFare
    /\ output.err = Ok

\* ---------------------------------------------------------------- C22
\* the step that ends an AcceptMatch call of driver d with success
AcceptSucceedsFor(d) ==
    \E c \in CallIds :
        /\ accept[c].pc = "finish"
        /\ accept'[c].pc = "done"
        /\ accept'[c].ret = Ok
        /\ accept[c].driverID = d

\* C22 as stated: a driver row changes only in a successful AcceptMatch of
\* that driver, and only in its availability flag, which becomes false.
C22_OnlyAvailabilityChanges ==
    [][\A d \in Drivers :
           drivers'[d] # drivers[d]
               => /\ AcceptSucceedsFor(d)
                  /\ drivers'[d] = [drivers[d] EXCEPT !.isAvailable = FALSE]]_vars

\* C22 amended: a driver row changes only in a successful AcceptMatch of
\* that driver; the step sets the availability flag to false and the time of
\* last activity to the present and leaves every other field as it was, so
\* no step changes another driver or sets availability to true.
C22_OnlyAvailabilityAndLastActive ==
    [][\A d \in Drivers :
           drivers'[d] # drivers[d]
               => /\ AcceptSucceedsFor(d)
                  /\ drivers'[d] = [drivers[d] EXCEPT !.isAvailable = FALSE,
                                                      !.idle = 0]]_vars

\* driver d1 after a successful AcceptMatch, the other drivers untouched
C22_Witness ==
    /\ \E c \in CallIds : accept[c].ret = Ok /\ accept[c].driverID = "d1"
    /\ drivers["d1"] = [DriverPool["d1"] EXCEPT !.isAvailable = FALSE,
                                                !.idle = 0]
    /\ \A d \in Drivers \ {"d1"} : drivers[d] = DriverPool[d]

\* ---------------------------------------------------------------- C23
\* C23: a step of an AcceptMatch call changes no MatchResult other than the
\* one the call names and changes no MatchRequest; the other results of the
\* same request keep their status.
C23_AcceptLeavesOthersUnchanged ==
    [][\A c \in CallIds :
           accept'[c] # accept[c]
               => /\ requests' = requests
                  /\ \A id \in ResultIds :
                         id # accept'[c].resultID
                             => results'[id] = results[id]]_vars

\* driver d1 has accepted its result of request 1 with success while the
\* result of d2 for the same request is still pending
C23_Witness ==
    /\ \E c \in CallIds : accept[c].ret = Ok /\ accept[c].resultID = <<1, "d1">>
    /\ results[<<1, "d1">>] = MatchResultStatusAccepted
    /\ results[<<1, "d2">>] = MatchResultStatusPending

\* ---------------------------------------------------------------- C24
\* C24: the time preference is 0.7 exactly when the request time lies in
\* 07:00-09:00 or 17:00-19:00, and 1.0 at every other time of the day, for
\* example at 09:30 and at 19:30.
C24_PeakWindowsEndAtNineAndSeven ==
    output.fn = "calculateTimePreference"
        => LET t == input.requestTime
               peak == (t >= 420 /\ t <= 540) \/ (t >= 1020 /\ t <= 1140)
           IN  output.value = IF peak THEN (One * 7) \div 10 ELSE One

\* ---------------------------------------------------------------- C25
\* C25: the price score is a finite number in [0, 1] for every estimate and
\* price range: 0.5 when the estimate exceeds the maximum, otherwise linear
\* from 1.0 at the minimum to 0 at the maximum, also when the estimate is
\* below the minimum or the minimum equals the maximum.
C25_PriceScoreNormalized ==
    (output.fn = "priceScore" /\ input.priceRange.maxPrice > 0)
        => LET est == input.estimatedPrice
               min == input.priceRange.minPrice
               max == input.priceRange.maxPrice
           IN  /\ IsFinite(output.score)
               /\ output.score >= 0
               /\ output.score <= One
               /\ est > max => output.score = One \div 2
               /\ (min < max /\ est = min) => output.score = One
               /\ (min < max /\ est = max) => output.score = 0
               /\ (min < max /\ min <= est /\ est <= max)
                     => output.score
                            = One - ((est - min) * One) \div (max - min)

\* ---------------------------------------------------------------- C26
\* the write of the result ranked i for request r has been executed: the
\* row exists or the write failed
WriteExecuted(r, i) ==
    \/ results[<<r, task[r].matches[i].driverID>>] # "none"
    \/ task[r].matches[i].driverID \in task[r].writeErrs

\* C26: a step that writes a MatchResult row of a request writes the row of
\* the highest-ranked result not yet written: the writes of all results
\* ranked above it have been executed, and no result ranked below it has a
\* row.  Nothing orders the writes of two requests (see the witness).
C26_WritesInRankedOrder ==
    [][\A r \in ReqIds : \A k \in 1..Len(task[r].matches) :
           LET id == <<r, task[r].matches[k].driverID>>
           IN  (results[id] = "none" /\ results'[id] # "none")
                   => /\ \A i \in 1..(k - 1) : WriteExecuted(r, i)
                      /\ \A j \in (k + 1)..Len(task[r].matches) :
                             results'[<<r, task[r].matches[j].driverID>>]
                                 = "none"]_vars

\* both requests are between the write of their first and of their second
\* result: the writes of the two requests interleave
C26_Witness ==
    \A r \in ReqIds :
        /\ task[r].pc = "save"
        /\ Len(task[r].matches) = 2
        /\ task[r].idx = 2
        /\ results[<<r, task[r].matches[1].driverID>>] = MatchResultStatusPending
        /\ results[<<r, task[r].matches[2].driverID>>] = "none"

\* ------------------------------------------------- runs without failures
\* a step of the background task of request r
TaskStep(r) ==
    \/ ProcessFindMatches(r)
    \/ ProcessNoMatch(r)
    \/ ProcessSaveResult(r)
    \/ ProcessMarkMatched(r)

\* the steps of the lifecycle in which no store and no collaborator fails
NextReliable ==
    \/ \E r \in ReqIds : CreateMatchRequest(r) /\ faults' = faults
    \/ \E r \in ReqIds : BuildResponse(r)
    \/ \E r \in ReqIds : ProcessFindMatches(r) /\ faults' = faults
    \/ \E r \in ReqIds : ProcessNoMatch(r) /\ faults' = faults
    \/ \E r \in ReqIds : ProcessSaveResult(r) /\ faults' = faults
    \/ \E r \in ReqIds : ProcessMarkMatched(r) /\ faults' = faults
    \/ \E c \in CallIds : AcceptGetResult(c) /\ faults' = faults
    \/ \E c \in CallIds : AcceptGetRequest(c) /\ faults' = faults
    \/ \E c \in CallIds : AcceptCreateTrip(c) /\ faults' = faults
    \/ \E c \in CallIds : AcceptUpdateResult(c) /\ faults' = faults
    \/ \E c \in CallIds : AcceptFinish(c) /\ faults' = faults

\* the goroutine of a task is scheduled as long as it can take a step
FairTasks == \A r \in ReqIds : WF_vars(TaskStep(r))

SpecReliable == Init /\ [][NextReliable]_vars /\ FairTasks

\* ---------------------------------------------------------------- C27
\* C27: without failures and with fairly scheduled tasks, a request stored
\* by CreateMatchRequest as Pending is eventually stored as Matched or as
\* Expired, and one task is run for it: the task is started by the step that
\* stores the request and is never started again.
C27_EveryRequestLeavesPending ==
    /\ \A r \in ReqIds :
           (requests[r].status = MatchStatusPending)
               ~> (requests[r].status \in {MatchStatusMatched,
                                           MatchStatusExpired})
    /\ [][\A r \in ReqIds :
              /\ (requests[r].status = "none" /\ requests'[r].status # "none")
                     => (task[r].pc = "none" /\ task'[r].pc = "findMatches")
              /\ (task[r].pc # "findMatches" /\ task'[r].pc = "findMatches")
                     => (task[r].pc = "none" /\ requests[r].status = "none")
              /\ task[r].pc = "done" => task'[r].pc = "done"]_vars

\* both requests have left Pending, one as Matched and one as Expired, and
\* their tasks have ended
C27_Witness ==
    /\ faults = 0
    /\ requests[1].status = MatchStatusMatched
    /\ requests[2].status = MatchStatusExpired
    /\ \A r \in ReqIds : task[r].pc = "done"

\* ---------------------------------------------------------------- C28
\* C28: a MatchResult stored as Accepted belongs to a MatchRequest stored as
\* Matched.
C28_AcceptedOnlyInMatchedRequest ==
    \A id \in ResultIds :
        results[id] = MatchResultStatusAccepted
            => requests[id[1]].status = MatchStatusMatched

\* ---------------------------------------------------------------- C29
\* C29: a MatchRequest stored as Matched has at least one stored MatchResult,
\* and a MatchRequest stored as Expired has none.
C29_MatchedHasResultsExpiredHasNone ==
    \A r \in ReqIds :
        /\ requests[r].status = MatchStatusMatched
               => \E d \in Drivers : results[<<r, d>>] # "none"
        /\ requests[r].status = MatchStatusExpired
               => \A d \in Drivers : results[<<r, d>>] = "none"

\* ---------------------------------------------------------------- C30
\* C30: an AcceptMatch call that has returned an error has created no trip,
\* and the trip of a call that has returned belongs to a MatchResult stored
\* as Accepted.
C30_ErrorMeansNoTrip ==
    \A c \in CallIds :
        accept[c].pc = "done"
            => /\ accept[c].ret # Ok => \A t \in trips : t.call # c
               /\ \A t \in trips :
                      t.call = c => results[t.result] = MatchResultStatusAccepted

====
